---- MODULE Spec2Model ----
(***************************************************************************)
(* Model of src/src/DB_import.py: the ingestion of the Steam catalog        *)
(* (import_games_from_s3), of the review archive (import_reviews), the      *)
(* derived users collection (build_users_from_reviews) and the orchestrator *)
(* (main).                                                                  *)
(*                                                                          *)
(* Values.  A Python string that the code takes apart (a catalog key, an    *)
(* archive entry name, a CSV cell) is a sequence of one-character strings.  *)
(* A typed value is a record with a single field named after its type:      *)
(* [int |-> 12], [str |-> s], [Decimal |-> 5], [float |-> 5],               *)
(* [datetime |-> <<y, m, d>>].  None is the record [none |-> TRUE].         *)
(* A document is a function from field names to values.                     *)
(***************************************************************************)
EXTENDS Integers, Sequences, FiniteSets, Bags, TLC

(***************************************************************************)
(* Bounds of the model.                                                     *)
(***************************************************************************)
\* Longest catalog (number of key/value pairs of games.json).
MaxCatalog == 3
\* Flush threshold of the catalog loop.  The source sets batch_size = 1000
\* (DB_import.py:295); it is scaled down so that a full batch, a flush and a
\* final partial batch all happen within MaxCatalog records.
batch_size == 2
\* Flush threshold of the review loop.  The source writes 5000
\* (DB_import.py:393); scaled down like batch_size.
REVIEWS_BATCH == 2
\* Most rows that the archive yields in one run, and most entries it lists.
MaxRows == 3
MaxEntries == 2
\* Longest catalog under main.
MaxMainCatalog == 2
\* Longest catalog of dated records.
MaxDateCatalog == 2

VARIABLES
    pc,              \* position of the running function, "idle" between calls
    caller,          \* "direct" (a function called on its own) or "main"
    s3_bucket,       \* whether S3_BUCKET is set in the environment of the process
    existing,        \* main's local: the collection names listed at line 685
    catalog,         \* content of s3://S3_BUCKET/data/games.json: <<key, value>> pairs
    pos,             \* number of catalog pairs the parser has yielded
    batch,           \* the running loop's buffer of pending operations
    total_inserted,  \* the running loop's counter
    listed,          \* import_reviews: the names z.namelist() gave at line 358,
                     \* kept until the first entry is opened
    csv_files,       \* import_reviews: the entries still to be read
    csv_filename,    \* import_reviews: the entry being read
    file_app_id,     \* import_reviews: the key taken from csv_filename
    rows_read,       \* number of rows the archive has yielded in this run
    ok_runs,         \* history: direct calls of an import that ended "ok", at most 2
    games,           \* games collection: _id -> document
    reviews,         \* reviews collection: a bag of documents (_id is generated)
    users,           \* users collection: _id -> document
    collections,     \* names of the collections that exist in the database
    games_result,    \* how the last import_games_from_s3 ended: "none", "ok", "error"
    reviews_result,  \* how the last import_reviews ended: "none", "ok", "error", "raised"
    users_result,    \* how the last build_users_from_reviews ended, "none" once
                     \* reviews has changed since
    main_result,     \* how the last main ended: "none", "done", "crashed"
    games_first,     \* history: games as the first completed import left it
    accepted,        \* history: the documents of the rows this run accepted
    last_write,      \* history: the last bulk write of this run, None before it
    last_row         \* history: the last row read, with what became of it

ctl == <<caller, s3_bucket, existing>>
loop == <<pos, batch, total_inserted>>
entry == <<listed, csv_files, csv_filename, file_app_id, rows_read, ok_runs>>
results == <<games_result, reviews_result, users_result, main_result>>
gamesVars == <<catalog, games, games_first>>
reviewsVars == <<reviews, accepted, last_row>>

vars == <<pc, ctl, loop, entry, results, gamesVars, reviewsVars, users,
          collections, last_write>>

GAMES_COLLECTION == "games"
REVIEWS_COLLECTION == "reviews"
USERS_COLLECTION == "users"

None == [none |-> TRUE]
EmptyDoc == [f \in {} |-> None]

(***************************************************************************)
(* Strings                                                                  *)
(***************************************************************************)
Digits == {"0", "1", "2", "3", "4", "5", "6", "7", "8", "9"}
Whitespace == {" "}

DigitVal(c) ==
    CASE c = "0" -> 0 [] c = "1" -> 1 [] c = "2" -> 2 [] c = "3" -> 3
      [] c = "4" -> 4 [] c = "5" -> 5 [] c = "6" -> 6 [] c = "7" -> 7
      [] c = "8" -> 8 [] c = "9" -> 9

\* str.isdigit(): non-empty and every character a digit.
IsDigit(s) == s # <<>> /\ \A i \in 1..Len(s) : s[i] \in Digits

RECURSIVE DigitsValue(_)
DigitsValue(s) ==
    IF s = <<>> THEN 0
    ELSE DigitsValue(SubSeq(s, 1, Len(s) - 1)) * 10 + DigitVal(s[Len(s)])

\* str.strip(): leading and trailing whitespace removed.
RECURSIVE LStrip(_)
LStrip(s) == IF s # <<>> /\ s[1] \in Whitespace THEN LStrip(Tail(s)) ELSE s
RECURSIVE RStrip(_)
RStrip(s) ==
    IF s # <<>> /\ s[Len(s)] \in Whitespace
    THEN RStrip(SubSeq(s, 1, Len(s) - 1)) ELSE s
Strip(s) == RStrip(LStrip(s))

\* Index of the first / last occurrence of character c in s, 0 when absent.
FirstIndex(s, c) ==
    IF \E i \in 1..Len(s) : s[i] = c
    THEN CHOOSE i \in 1..Len(s) : s[i] = c /\ \A j \in 1..(i - 1) : s[j] # c
    ELSE 0
LastIndex(s, c) ==
    IF \E i \in 1..Len(s) : s[i] = c
    THEN CHOOSE i \in 1..Len(s) : s[i] = c /\ \A j \in (i + 1)..Len(s) : s[j] # c
    ELSE 0

\* s.split(c)[0] and s.split(c)[-1]
SplitFirst(s, c) ==
    IF FirstIndex(s, c) = 0 THEN s ELSE SubSeq(s, 1, FirstIndex(s, c) - 1)
SplitLast(s, c) == SubSeq(s, LastIndex(s, c) + 1, Len(s))

\* s.endswith(suffix)
EndsWith(s, suffix) ==
    /\ Len(s) >= Len(suffix)
    /\ SubSeq(s, Len(s) - Len(suffix) + 1, Len(s)) = suffix

\* int(s) on a string: surrounding whitespace ignored, an optional sign,
\* then decimal digits.  [ok |-> FALSE] stands for ValueError.
PyInt(s) ==
    LET t == Strip(s)
        signed == t # <<>> /\ t[1] \in {"+", "-"}
        body == IF signed THEN Tail(t) ELSE t
    IN  IF IsDigit(body)
        THEN [ok |-> TRUE,
              val |-> IF signed /\ t[1] = "-" THEN 0 - DigitsValue(body)
                      ELSE DigitsValue(body)]
        ELSE [ok |-> FALSE, val |-> 0]

(***************************************************************************)
(* parse_date_mdy_long (DB_import.py:201-221).  A date string is a sequence *)
(* of lexemes: a month name is one lexeme, every other character is one.    *)
(***************************************************************************)
FullMonth ==
    [l \in {"January", "February", "October", "May"} |->
        CASE l = "January" -> 1 [] l = "February" -> 2 [] l = "May" -> 5
          [] l = "October" -> 10]
AbbrMonth ==
    [l \in {"Jan", "Feb", "Oct", "May"} |->
        CASE l = "Jan" -> 1 [] l = "Feb" -> 2 [] l = "May" -> 5 [] l = "Oct" -> 10]

IsLeap(y) == (y % 4 = 0 /\ y % 100 # 0) \/ y % 400 = 0
DaysIn(m, y) ==
    IF m = 2 THEN (IF IsLeap(y) THEN 29 ELSE 28)
    ELSE IF m \in {4, 6, 9, 11} THEN 30 ELSE 31

AllIn(s, S) == \A i \in 1..Len(s) : s[i] \in S

\* datetime(y, m, d) raises ValueError outside the calendar.
ValidDate(y, m, d) == y >= 1 /\ m \in 1..12 /\ d \in 1..DaysIn(m, y)

\* strptime(s, "<month> %d, %Y") with the month names of `months`:
\* month, whitespace, a day of one or two digits, a comma, whitespace, a
\* year of four digits, and nothing after it.  The set of dates matched
\* (empty: ValueError).
MatchMDY(s, months) ==
    {<<DigitsValue(SubSeq(s, c + 1, Len(s))), months[s[1]],
       DigitsValue(SubSeq(s, a + 1, b))>> :
        <<a, b, c>> \in
            {t \in (1..Len(s)) \X (1..Len(s)) \X (1..Len(s)) :
                /\ s[1] \in DOMAIN months
                /\ t[1] >= 2 /\ AllIn(SubSeq(s, 2, t[1]), Whitespace)
                /\ t[2] - t[1] \in {1, 2}
                /\ IsDigit(SubSeq(s, t[1] + 1, t[2]))
                /\ t[2] + 1 <= Len(s) /\ s[t[2] + 1] = ","
                /\ t[3] >= t[2] + 2
                /\ AllIn(SubSeq(s, t[2] + 2, t[3]), Whitespace)
                /\ Len(s) - t[3] = 4
                /\ IsDigit(SubSeq(s, t[3] + 1, Len(s)))}}

\* strptime(s, "%Y-%m-%d")
MatchYMD(s) ==
    {<<DigitsValue(SubSeq(s, 1, 4)), DigitsValue(SubSeq(s, 6, a)),
       DigitsValue(SubSeq(s, a + 2, Len(s)))>> :
        a \in {t \in 6..Len(s) :
                /\ Len(s) >= 8
                /\ IsDigit(SubSeq(s, 1, 4)) /\ s[5] = "-"
                /\ t - 5 \in {1, 2} /\ IsDigit(SubSeq(s, 6, t))
                /\ t + 1 <= Len(s) /\ s[t + 1] = "-"
                /\ Len(s) - (t + 1) \in {1, 2}
                /\ IsDigit(SubSeq(s, t + 2, Len(s)))}}

\* One format tried: the datetime, or None for ValueError.
TryFormat(matches) ==
    LET ok == {t \in matches : ValidDate(t[1], t[2], t[3])}
    IN  IF ok = {} THEN None ELSE [datetime |-> CHOOSE t \in ok : TRUE]

\* Faulty variant of parse_date_mdy_long: the "%b %d, %Y" format is missing.
parse_date_without_abbr(s) ==
    IF s = None \/ s.str = <<>> THEN None
    ELSE LET t == Strip(s.str)
             full == TryFormat(MatchMDY(t, FullMonth))
         IN  IF full # None THEN full ELSE TryFormat(MatchYMD(t))

\* s is None or [str |-> lexemes].
parse_date_mdy_long(s) ==
    IF s = None \/ s.str = <<>> THEN None
    ELSE LET t == Strip(s.str)
             full == TryFormat(MatchMDY(t, FullMonth))
             abbr == TryFormat(MatchMDY(t, AbbrMonth))
             iso == TryFormat(MatchYMD(t))
         IN  IF full # None THEN full
             ELSE IF abbr # None THEN abbr
             ELSE iso

(***************************************************************************)
(* Documents and the bulk write primitive                                   *)
(***************************************************************************)
IsStr(v) == DOMAIN v = {"str"}
IsDecimal(v) == DOMAIN v = {"Decimal"}

\* {**a, **b} and the effect of {"$set": b} on a: b's fields over a's.
Merge(a, b) ==
    [f \in DOMAIN a \cup DOMAIN b |-> IF f \in DOMAIN b THEN b[f] ELSE a[f]]

UpdateOne(doc) ==
    [kind |-> "UpdateOne", filter_id |-> doc["_id"], doc |-> doc, upsert |-> TRUE]
InsertOne(doc) == [kind |-> "InsertOne", doc |-> doc]

\* Faulty variant of ApplyUpdateOne: the filter matches nothing, so every upsert
\* inserts a document under a generated _id.
ApplyUpdateOneNoMatch(col, op) ==
    ([oid |-> Cardinality(DOMAIN col)] :> op.doc) @@ col

\* UpdateOne({"_id": id}, {"$set": doc}, upsert=True) on a collection keyed by
\* _id: the matched document gets doc's fields, an unmatched one is inserted.
ApplyUpdateOne(col, op) ==
    IF op.filter_id \in DOMAIN col
    THEN [col EXCEPT ![op.filter_id] = Merge(@, op.doc)]
    ELSE IF op.upsert THEN (op.filter_id :> op.doc) @@ col ELSE col

\* InsertOne(doc) on a collection whose _id the server generates: a bag.
ApplyInsertOne(col, op) == col (+) SetToBag({op.doc})

ApplyOp(col, op) ==
    IF op.kind = "UpdateOne" THEN ApplyUpdateOne(col, op) ELSE ApplyInsertOne(col, op)

\* Collection.bulk_write(ops, ordered): the operations are applied in list
\* order; those with an index in `failed` fail on the server.  An ordered
\* write stops at the first failure, an unordered one goes on with the rest.
\* BulkWriteError is raised afterwards when failed is not empty.
RECURSIVE BulkApply(_, _, _, _, _)
BulkApply(col, ops, i, failed, ordered) ==
    IF i > Len(ops) THEN col
    ELSE IF i \in failed
         THEN (IF ordered THEN col ELSE BulkApply(col, ops, i + 1, failed, ordered))
         ELSE BulkApply(ApplyOp(col, ops[i]), ops, i + 1, failed, ordered)

bulk_write(col, ops, failed, ordered) == BulkApply(col, ops, 1, failed, ordered)

\* Number of operations of a bulk write that the server applied.
Applied(ops, failed, ordered) ==
    IF failed = {} THEN Len(ops)
    ELSE IF ordered
         THEN (CHOOSE i \in failed : \A j \in failed : i <= j) - 1
         ELSE Len(ops) - Cardinality(failed)

(***************************************************************************)
(* Catalog ingestion: import_games_from_s3 (DB_import.py:281-336)           *)
(***************************************************************************)
\* Catalog keys and values the model draws games.json from.  "1" and "01"
\* are different JSON keys with the same integer _id.
CatalogKeys == {<<"1">>, <<"0", "1">>, <<"a">>}
CatalogValues ==
    { [name |-> [str |-> <<"A">>],
       release_date |-> [str |-> <<"Oct", " ", "2", "2", ",", " ", "2", "0", "2", "4">>]],
      [name |-> [str |-> <<"B">>], price |-> [Decimal |-> 5]],
      [price |-> [int |-> 7],
       release_date |-> [str |-> <<"2", "2", "/", "1", "0", "/", "2", "0", "2", "4">>]] }

SeqsUpTo(S, n) == UNION {[1..m -> S] : m \in 0..n}
Catalogs == SeqsUpTo(CatalogKeys \X CatalogValues, MaxCatalog)

\* line 300: int(k) if str(k).isdigit() else k
GameId(k) == IF IsDigit(k) THEN [int |-> PyInt(k).val] ELSE [str |-> k]

\* lines 300-313: the document built from one key/value pair.
GameDoc(k, v) ==
    LET doc0 == Merge(v, [f \in {"_id"} |-> GameId(k)])
        doc1 == IF "price" \in DOMAIN doc0 /\ IsDecimal(doc0["price"])
                THEN [doc0 EXCEPT !["price"] = [float |-> @.Decimal]]
                ELSE doc0
        rd == IF "release_date" \in DOMAIN doc1 THEN doc1["release_date"] ELSE None
        parsed_dt == IF IsStr(rd) THEN parse_date_mdy_long(rd) ELSE None
    IN  IF parsed_dt # None
        THEN [doc1 EXCEPT !["release_date"] = parsed_dt]
        ELSE doc1

\* lines 319 and 325: col.bulk_write(batch, ordered=False)
games_bulk_write(col, ops, failed) == bulk_write(col, ops, failed, FALSE)

\* A write that applied at least one operation creates the collection.
Created(name, ops, failed) ==
    IF Applied(ops, failed, FALSE) > 0 THEN collections \cup {name} ELSE collections

\* What a bulk write leaves in last_write.
WriteRecord(name, before, ops, failed) ==
    [col |-> name, before |-> before, ops |-> ops, failed |-> failed]

\* The locals of a loop are gone when its function returns.
LocalsGone ==
    /\ pos' = 0 /\ batch' = <<>>
    /\ listed' = <<>>
    /\ csv_files' = <<>> /\ csv_filename' = <<>> /\ file_app_id' = 0
    /\ rows_read' = 0

\* import_games_from_s3 returns: normally ("ok"), or through the handler of
\* lines 335-336, which logs the exception and returns ("error").  main goes
\* on at line 696.
GamesReturn(result, newGames) ==
    /\ pc' = IF caller = "main" THEN "main_reviews" ELSE "idle"
    /\ games_result' = result
    /\ ok_runs' = IF caller = "direct" /\ result = "ok" /\ ok_runs < 2
                  THEN ok_runs + 1 ELSE ok_runs
    /\ games_first' =
         IF caller = "direct" /\ result = "ok" /\ ok_runs = 0
         THEN <<newGames>> ELSE games_first
    /\ LocalsGone
    /\ UNCHANGED <<reviews_result, users_result, main_result>>

\* A direct call of import_games_from_s3(db).
CallImportGames ==
    /\ pc = "idle"
    /\ caller' = "direct"
    /\ pc' = "games_open"
    /\ UNCHANGED <<s3_bucket, existing, loop, entry, results, gamesVars,
                   reviewsVars, users, collections, last_write>>

\* lines 289-296: the object is opened and the loop's locals are set.
GamesOpen ==
    /\ pc = "games_open" /\ s3_bucket
    /\ pc' = "games_loop"
    /\ pos' = 0 /\ batch' = <<>> /\ total_inserted' = 0
    /\ last_write' = None
    /\ games_result' = "none"
    /\ UNCHANGED <<ctl, entry, reviews_result, users_result, main_result,
                   gamesVars, reviewsVars, users, collections>>

\* line 289 raises (object missing, S3 unreachable): lines 335-336.
GamesOpenFail ==
    /\ pc = "games_open"
    /\ GamesReturn("error", games)
    /\ last_write' = None
    /\ UNCHANGED <<ctl, total_inserted, catalog, games, reviewsVars, users,
                   collections>>

\* lines 298-318: one pair of the stream becomes an upsert in the buffer.
GamesRecord ==
    /\ pc = "games_loop" /\ pos < Len(catalog)
    /\ LET kv == catalog[pos + 1]
           op == UpdateOne(GameDoc(kv[1], kv[2]))
       IN  /\ batch' = Append(batch, op)
           /\ pc' = IF Len(batch) + 1 >= batch_size THEN "games_flush" ELSE "games_loop"
    /\ pos' = pos + 1
    /\ UNCHANGED <<ctl, total_inserted, entry, results, gamesVars, reviewsVars,
                   users, collections, last_write>>

\* The stream raises while the parser reads on (line 298): lines 335-336.
GamesStreamFail ==
    /\ pc = "games_loop" /\ pos < Len(catalog)
    /\ GamesReturn("error", games)
    /\ UNCHANGED <<ctl, total_inserted, catalog, games, reviewsVars, users,
                   collections, last_write>>

\* Faulty variant of GamesFlush: the buffer is not emptied after the write.
GamesFlushKeepsBatch ==
    /\ pc = "games_flush"
    /\ games' = games_bulk_write(games, batch, {})
    /\ collections' = Created(GAMES_COLLECTION, batch, {})
    /\ last_write' = WriteRecord(GAMES_COLLECTION, games, batch, {})
    /\ total_inserted' = total_inserted + Len(batch)
    /\ pc' = "games_loop"
    /\ UNCHANGED <<ctl, pos, batch, entry, results, catalog, games_first,
                   reviewsVars, users>>

\* lines 319-322: the full buffer is written and emptied.
GamesFlush ==
    /\ pc = "games_flush"
    /\ games' = games_bulk_write(games, batch, {})
    /\ collections' = Created(GAMES_COLLECTION, batch, {})
    /\ last_write' = WriteRecord(GAMES_COLLECTION, games, batch, {})
    /\ total_inserted' = total_inserted + Len(batch)
    /\ batch' = <<>>
    /\ pc' = "games_loop"
    /\ UNCHANGED <<ctl, pos, entry, results, catalog, games_first, reviewsVars,
                   users>>

\* line 319 or 325 raises BulkWriteError: the operations in `failed` were not
\* applied; the exception leaves the loop through lines 335-336.
GamesWriteFail ==
    /\ pc \in {"games_flush", "games_final"}
    /\ \E failed \in SUBSET (1..Len(batch)) \ {{}} :
        /\ games' = games_bulk_write(games, batch, failed)
        /\ collections' = Created(GAMES_COLLECTION, batch, failed)
        /\ last_write' = WriteRecord(GAMES_COLLECTION, games, batch, failed)
        /\ GamesReturn("error", games_bulk_write(games, batch, failed))
    /\ UNCHANGED <<ctl, total_inserted, catalog, reviewsVars, users>>

\* line 324: the stream is exhausted.
GamesEnd ==
    /\ pc = "games_loop" /\ pos = Len(catalog)
    /\ IF batch # <<>>
       THEN pc' = "games_final" /\ UNCHANGED <<pos, batch, entry, results, games_first>>
       ELSE GamesReturn("ok", games)
    /\ UNCHANGED <<ctl, total_inserted, catalog, games, reviewsVars, users,
                   collections, last_write>>

\* lines 325-328: the final partial buffer is written.
GamesFinal ==
    /\ pc = "games_final"
    /\ games' = games_bulk_write(games, batch, {})
    /\ collections' = Created(GAMES_COLLECTION, batch, {})
    /\ last_write' = WriteRecord(GAMES_COLLECTION, games, batch, {})
    /\ total_inserted' = total_inserted + Len(batch)
    /\ GamesReturn("ok", games_bulk_write(games, batch, {}))
    /\ UNCHANGED <<ctl, catalog, reviewsVars, users>>

GamesStep ==
    \/ GamesOpen \/ GamesOpenFail \/ GamesRecord \/ GamesStreamFail
    \/ GamesFlush \/ GamesWriteFail \/ GamesEnd \/ GamesFinal

(***************************************************************************)
(* Review ingestion: import_reviews (DB_import.py:345-405)                  *)
(***************************************************************************)
UpperCase == <<"A", "B", "C", "D", "E", "F", "G", "H", "I", "J", "K", "L", "M",
               "N", "O", "P", "Q", "R", "S", "T", "U", "V", "W", "X", "Y", "Z">>
LowerCase == <<"a", "b", "c", "d", "e", "f", "g", "h", "i", "j", "k", "l", "m",
               "n", "o", "p", "q", "r", "s", "t", "u", "v", "w", "x", "y", "z">>
LowerChar(c) ==
    IF \E i \in 1..26 : UpperCase[i] = c
    THEN LowerCase[CHOOSE i \in 1..26 : UpperCase[i] = c]
    ELSE c
\* str.lower()
Lower(s) == [i \in 1..Len(s) |-> LowerChar(s[i])]

RECOMMENDED == <<"r", "e", "c", "o", "m", "m", "e", "n", "d", "e", "d">>
NOT_RECOMMENDED == <<"n", "o", "t", " ">> \o RECOMMENDED

\* coerce_bool_recommend (lines 223-232); s is None or [str |-> chars].
coerce_bool_recommend(s) ==
    IF s = None THEN None
    ELSE LET t == Lower(Strip(s.str))
         IN  IF t = RECOMMENDED THEN [bool |-> TRUE]
             ELSE IF t = NOT_RECOMMENDED THEN [bool |-> FALSE]
             ELSE None

\* dict.get(key): the cell, None when the row has no such column.
RowGet(row, key) == IF key \in DOMAIN row THEN row[key] ELSE None

\* Python truth of a cell or None: a non-empty string.
Truthy(v) == v # None /\ v.str # <<>>

\* Faulty variant of Or3: the first value that is not None, empty or not.
Or3FirstPresent(a, b, default) ==
    IF a # None THEN a ELSE IF b # None THEN b ELSE default

\* a or b or default
Or3(a, b, default) == IF Truthy(a) THEN a ELSE IF Truthy(b) THEN b ELSE default

\* line 376 and line 377
RowUser(row) ==
    Strip(Or3(RowGet(row, "user"), RowGet(row, "author_steamid"), [str |-> <<>>]).str)
RowReviewText(row) ==
    Strip(Or3(RowGet(row, "review"), RowGet(row, "review_text"), [str |-> <<>>]).str)

\* Faulty variant of RowAccepted: the review text is not tested.
RowAcceptedOnUser(row) == RowUser(row) # <<>>

\* line 379: the row is kept.
RowAccepted(row) == RowUser(row) # <<>> /\ RowReviewText(row) # <<>>

\* float(x) of line 385, x a cell or the integer 0: a string parses when it is
\* an optionally signed run of digits between optional whitespace (the cells
\* of the model hold no fraction and no exponent).  ok = FALSE: ValueError.
PyFloat(x) ==
    IF DOMAIN x = {"int"} THEN [ok |-> TRUE, val |-> [float |-> x.int]]
    ELSE [ok |-> PyInt(x.str).ok, val |-> [float |-> PyInt(x.str).val]]

\* line 385
RowPlaytime(row) ==
    PyFloat(Or3(RowGet(row, "playtime"), RowGet(row, "author_playtime_forever"),
                [int |-> 0]))

\* line 387
RowRecommend(row) ==
    \/ RowGet(row, "recommend") = [str |-> <<"R">> \o Tail(RECOMMENDED)]
    \/ RowGet(row, "recommended") = [str |-> <<"T", "r", "u", "e">>]

\* lines 382-389: the document of an accepted row whose playtime parses.
ReviewDoc(row, app_id, filename) ==
    [app_id |-> [int |-> app_id],
     user |-> [str |-> RowUser(row)],
     playtime |-> RowPlaytime(row).val,
     review_text |-> [str |-> RowReviewText(row)],
     recommend |-> [bool |-> RowRecommend(row)],
     source_file |-> [str |-> filename]]

\* Faulty variant of FileAppId: the directory prefix is not removed.
FileAppIdOfPath(filename) ==
    LET parsed == PyInt(SplitFirst(filename, "_"))
    IN  IF parsed.ok THEN parsed.val ELSE 0

\* lines 366-370: the key taken from the name of an entry.
FileAppId(filename) ==
    LET pure_name == SplitLast(filename, "/")
        parsed == PyInt(SplitFirst(pure_name, "_"))
    IN  IF parsed.ok THEN parsed.val ELSE 0

\* line 358: the entries import_reviews reads, in archive order.
CsvFiles(namelist) == SelectSeq(namelist, LAMBDA f : EndsWith(f, <<".", "c", "s", "v">>))

\* Faulty variant of reviews_bulk_write: an ordered write, which stops at the first
\* operation that fails.
reviews_bulk_write_ordered(col, ops, failed) == bulk_write(col, ops, failed, TRUE)

\* lines 394 and 399: col.bulk_write(batch, ordered=False)
reviews_bulk_write(col, ops, failed) == bulk_write(col, ops, failed, FALSE)

\* import_reviews returns: normally ("ok") or through the handler of lines
\* 404-405 ("error").  main goes on at line 701.
ReviewsReturn(result) ==
    /\ pc' = IF caller = "main" THEN "main_users" ELSE "idle"
    /\ reviews_result' = result
    /\ ok_runs' = IF caller = "direct" /\ result = "ok" /\ ok_runs < 2
                  THEN ok_runs + 1 ELSE ok_runs
    /\ LocalsGone
    /\ UNCHANGED <<games_result, users_result, main_result>>

\* A direct call of import_reviews(db).
CallImportReviews ==
    /\ pc = "idle"
    /\ caller' = "direct"
    /\ pc' = "reviews_drop"
    /\ UNCHANGED <<s3_bucket, existing, loop, entry, results, gamesVars,
                   reviewsVars, users, collections, last_write>>

\* Faulty variant of Dropped: the collection is left as it is.
NotDropped(col) == col

\* line 347: col.drop()
Dropped(col) == EmptyBag

\* lines 346-352: the collection is dropped before the archive is opened.
ReviewsDrop ==
    /\ pc = "reviews_drop"
    /\ reviews' = Dropped(reviews)
    /\ collections' = collections \ {REVIEWS_COLLECTION}
    /\ total_inserted' = 0
    /\ accepted' = EmptyBag /\ last_row' = None /\ last_write' = None
    /\ reviews_result' = "none" /\ users_result' = "none"
    /\ pc' = "reviews_open"
    /\ UNCHANGED <<ctl, pos, batch, entry, games_result, main_result, gamesVars,
                   users>>

\* line 347 raises (database unreachable): nothing handles it, the
\* exception leaves import_reviews and, under main, main.
ReviewsDropFail ==
    /\ pc = "reviews_drop"
    /\ pc' = "idle"
    /\ reviews_result' = "raised"
    /\ main_result' = IF caller = "main" THEN "crashed" ELSE main_result
    /\ last_row' = None /\ last_write' = None
    /\ UNCHANGED <<ctl, loop, entry, games_result, users_result, gamesVars,
                   reviews, accepted, users, collections>>

\* lines 355-360: the archive is opened, its entries are listed and filtered.
ReviewsOpen(namelist) ==
    /\ pc = "reviews_open" /\ s3_bucket
    /\ listed' = namelist
    /\ csv_files' = CsvFiles(namelist)
    /\ batch' = <<>>
    /\ rows_read' = 0
    /\ pc' = "reviews_entry"
    /\ UNCHANGED <<ctl, pos, total_inserted, csv_filename, file_app_id, ok_runs,
                   results, gamesVars, reviewsVars, users, collections, last_write>>

\* line 355 or 356 raises (source unreachable, archive corrupt): lines 404-405.
ReviewsOpenFail ==
    /\ pc = "reviews_open"
    /\ ReviewsReturn("error")
    /\ UNCHANGED <<ctl, total_inserted, gamesVars, reviewsVars, users,
                   collections, last_write>>

\* lines 362-373: the next entry is opened and its key is taken from its name.
ReviewsEntry ==
    /\ pc = "reviews_entry" /\ csv_files # <<>>
    /\ csv_filename' = Head(csv_files)
    /\ csv_files' = Tail(csv_files)
    /\ file_app_id' = FileAppId(Head(csv_files))
    /\ pc' = "reviews_row"
    /\ listed' = <<>>
    /\ UNCHANGED <<ctl, loop, rows_read, ok_runs, results, gamesVars,
                   reviewsVars, users, collections, last_write>>

\* lines 375-396: one row of the open entry.
ReviewsRow(row) ==
    /\ pc = "reviews_row" /\ rows_read < MaxRows
    /\ IF ~RowAccepted(row)
       THEN \* line 380: continue
            /\ last_row' = [row |-> row, outcome |-> "skipped", doc |-> EmptyDoc]
            /\ pc' = "reviews_row"
            /\ rows_read' = rows_read + 1
            /\ UNCHANGED <<pos, batch, listed, csv_files, csv_filename, file_app_id,
                           ok_runs, accepted, results>>
       ELSE IF ~RowPlaytime(row).ok
       THEN \* line 385 raises ValueError: lines 404-405
            /\ last_row' = [row |-> row, outcome |-> "raised", doc |-> EmptyDoc]
            /\ ReviewsReturn("error")
            /\ UNCHANGED accepted
       ELSE LET doc == ReviewDoc(row, file_app_id, csv_filename)
            IN  /\ last_row' = [row |-> row, outcome |-> "written", doc |-> doc]
                /\ batch' = Append(batch, InsertOne(doc))
                /\ accepted' = accepted (+) SetToBag({doc})
                /\ pc' = IF Len(batch) + 1 >= REVIEWS_BATCH
                         THEN "reviews_flush" ELSE "reviews_row"
                /\ rows_read' = rows_read + 1
                /\ UNCHANGED <<pos, listed, csv_files, csv_filename, file_app_id, ok_runs,
                               results>>
    /\ UNCHANGED <<ctl, total_inserted, gamesVars, reviews, users, collections,
                   last_write>>

\* The reader of the open entry is exhausted: back to line 362.
ReviewsEndOfEntry ==
    /\ pc = "reviews_row"
    /\ pc' = "reviews_entry"
    /\ UNCHANGED <<ctl, loop, entry, results, gamesVars, reviewsVars, users,
                   collections, last_write>>

\* The archive stream raises while an entry is opened or read (lines 372-375):
\* lines 404-405.
ReviewsStreamFail ==
    /\ pc \in {"reviews_entry", "reviews_row"}
    /\ pc = "reviews_entry" => csv_files # <<>>
    /\ ReviewsReturn("error")
    /\ UNCHANGED <<ctl, total_inserted, gamesVars, reviewsVars, users,
                   collections, last_write>>

\* lines 394-396: the full buffer is written and emptied.
ReviewsFlush ==
    /\ pc = "reviews_flush"
    /\ reviews' = reviews_bulk_write(reviews, batch, {})
    /\ collections' = Created(REVIEWS_COLLECTION, batch, {})
    /\ last_write' = WriteRecord(REVIEWS_COLLECTION, reviews, batch, {})
    /\ total_inserted' = total_inserted + Len(batch)
    /\ batch' = <<>>
    /\ pc' = "reviews_row"
    /\ UNCHANGED <<ctl, pos, entry, results, gamesVars, accepted, last_row,
                   users>>

\* line 394 or 399 raises BulkWriteError: the operations in `failed` were not
\* applied; the exception leaves the loops through lines 404-405.
ReviewsWriteFail ==
    /\ pc \in {"reviews_flush", "reviews_final"}
    /\ \E failed \in SUBSET (1..Len(batch)) \ {{}} :
        /\ reviews' = reviews_bulk_write(reviews, batch, failed)
        /\ collections' = Created(REVIEWS_COLLECTION, batch, failed)
        /\ last_write' = WriteRecord(REVIEWS_COLLECTION, reviews, batch, failed)
    /\ ReviewsReturn("error")
    /\ UNCHANGED <<ctl, total_inserted, gamesVars, accepted, last_row, users>>

\* line 398: every entry has been read.
ReviewsEnd ==
    /\ pc = "reviews_entry" /\ csv_files = <<>>
    /\ IF batch # <<>>
       THEN pc' = "reviews_final" /\ UNCHANGED <<pos, batch, entry, results>>
       ELSE ReviewsReturn("ok")
    /\ UNCHANGED <<ctl, total_inserted, gamesVars, reviewsVars, users,
                   collections, last_write>>

\* lines 399-402: the final partial buffer is written.
ReviewsFinal ==
    /\ pc = "reviews_final"
    /\ reviews' = reviews_bulk_write(reviews, batch, {})
    /\ collections' = Created(REVIEWS_COLLECTION, batch, {})
    /\ last_write' = WriteRecord(REVIEWS_COLLECTION, reviews, batch, {})
    /\ total_inserted' = total_inserted + Len(batch)
    /\ ReviewsReturn("ok")
    /\ UNCHANGED <<ctl, gamesVars, accepted, last_row, users>>

ReviewsStep(namelists, rows) ==
    \/ ReviewsDrop \/ ReviewsDropFail
    \/ (\E namelist \in namelists : ReviewsOpen(namelist))
    \/ ReviewsOpenFail \/ ReviewsEntry
    \/ (\E row \in rows : ReviewsRow(row))
    \/ ReviewsEndOfEntry \/ ReviewsStreamFail
    \/ ReviewsFlush \/ ReviewsWriteFail \/ ReviewsEnd \/ ReviewsFinal

(***************************************************************************)
(* Derived users: build_users_from_reviews (DB_import.py:410-495)           *)
(***************************************************************************)
RECURSIVE SumOver(_, _)
SumOver(S, f) ==
    IF S = {} THEN 0
    ELSE LET x == CHOOSE y \in S : TRUE IN f[x] + SumOver(S \ {x}, f)

\* lines 442-461: $match, $group and $project over the reviews collection.
GroupUsers(revs) ==
    LET docs == {d \in BagToSet(revs) : "user" \in DOMAIN d /\ d["user"] # None}
        of(u) == {d \in docs : d["user"] = u}
    IN  [u \in {d["user"] : d \in docs} |->
            [_id |-> u,
             name |-> u,
             owned_app_ids |-> {d["app_id"] : d \in of(u)},
             review_count |-> SumOver(of(u), revs)]]

\* Faulty variant of MergeInto: whenMatched "keepExisting".
MergeKeepExisting(target, grouped) ==
    [u \in DOMAIN target \cup DOMAIN grouped |->
        IF u \in DOMAIN target THEN target[u] ELSE grouped[u]]

\* Faulty variant of MergeInto: the target is replaced by the groups ($out).
MergeReplaceAll(target, grouped) == grouped

\* lines 464-471: $merge into users on _id, whenMatched "replace",
\* whenNotMatched "insert".
MergeInto(target, grouped) ==
    [u \in DOMAIN target \cup DOMAIN grouped |->
        IF u \in DOMAIN grouped THEN grouped[u] ELSE target[u]]

Restrict(f, S) == [x \in S |-> f[x]]

\* A direct call of build_users_from_reviews(db).
CallBuildUsers ==
    /\ pc = "idle"
    /\ caller' = "direct"
    /\ pc' = "users_build"
    /\ UNCHANGED <<s3_bucket, existing, loop, entry, results, gamesVars,
                   reviewsVars, users, collections, last_write>>

\* lines 437-495: the aggregation runs to its end.
UsersBuild ==
    /\ pc = "users_build"
    /\ users' = MergeInto(users, GroupUsers(reviews))
    /\ collections' = IF DOMAIN GroupUsers(reviews) # {}
                      THEN collections \cup {USERS_COLLECTION} ELSE collections
    /\ users_result' = "ok"
    /\ main_result' = IF caller = "main" THEN "done" ELSE main_result
    /\ pc' = "idle"
    /\ UNCHANGED <<ctl, loop, entry, games_result, reviews_result, gamesVars,
                   reviewsVars, last_write>>

\* line 477 raises after the groups in `merged` were written: nothing handles
\* it, the exception leaves build_users_from_reviews and, under main, main.
UsersBuildFail ==
    /\ pc = "users_build"
    /\ \E merged \in SUBSET DOMAIN GroupUsers(reviews) :
        /\ users' = MergeInto(users, Restrict(GroupUsers(reviews), merged))
        /\ collections' = IF merged # {}
                          THEN collections \cup {USERS_COLLECTION} ELSE collections
    /\ users_result' = "raised"
    /\ main_result' = IF caller = "main" THEN "crashed" ELSE main_result
    /\ pc' = "idle"
    /\ UNCHANGED <<ctl, loop, entry, games_result, reviews_result, gamesVars,
                   reviewsVars, last_write>>

UsersStep == UsersBuild \/ UsersBuildFail

(***************************************************************************)
(* The orchestrator: main (DB_import.py:664-704)                            *)
(***************************************************************************)
\* A run of main in a process whose environment sets S3_BUCKET or not.
MainStart(s3) ==
    /\ pc = "idle"
    /\ caller' = "main"
    /\ s3_bucket' = s3
    /\ main_result' = "none"
    /\ pc' = "main_ensure"
    /\ UNCHANGED <<existing, loop, entry, games_result, reviews_result,
                   users_result, gamesVars, reviewsVars, users, collections,
                   last_write>>

\* lines 681-685: the data files are there, the collection names are listed.
MainEnsure ==
    /\ pc = "main_ensure"
    /\ existing' = collections
    /\ pc' = "main_games"
    /\ UNCHANGED <<caller, s3_bucket, loop, entry, results, gamesVars,
                   reviewsVars, users, collections, last_write>>

\* line 681 raises (a download fails): main ends with the exception.
MainEnsureFail ==
    /\ pc = "main_ensure"
    /\ pc' = "idle"
    /\ main_result' = "crashed"
    /\ UNCHANGED <<ctl, loop, entry, games_result, reviews_result, users_result,
                   gamesVars, reviewsVars, users, collections, last_write>>

\* lines 688-694: the catalog is imported unless games is listed.  Without
\* S3_BUCKET line 692 calls import_games, a name the module does not define:
\* NameError ends main.
MainGames ==
    /\ pc = "main_games"
    /\ IF GAMES_COLLECTION \in existing
       THEN pc' = "main_reviews" /\ UNCHANGED results
       ELSE IF s3_bucket
       THEN pc' = "games_open" /\ UNCHANGED results
       ELSE /\ pc' = "idle"
            /\ main_result' = "crashed"
            /\ UNCHANGED <<games_result, reviews_result, users_result>>
    /\ UNCHANGED <<ctl, loop, entry, gamesVars, reviewsVars, users,
                   collections, last_write>>

\* line 696
MainReviews ==
    /\ pc = "main_reviews"
    /\ pc' = "reviews_drop"
    /\ UNCHANGED <<ctl, loop, entry, results, gamesVars, reviewsVars, users,
                   collections, last_write>>

\* Faulty variant of MainUsers: users is built in every run.
MainUsersAlways ==
    /\ pc = "main_users"
    /\ pc' = "users_build"
    /\ UNCHANGED <<ctl, loop, entry, results, gamesVars, reviewsVars, users,
                   collections, last_write>>

\* lines 701-704: users is built unless the collection exists.
MainUsers ==
    /\ pc = "main_users"
    /\ IF USERS_COLLECTION \notin collections
       THEN pc' = "users_build" /\ UNCHANGED results
       ELSE /\ pc' = "idle"
            /\ main_result' = "done"
            /\ UNCHANGED <<games_result, reviews_result, users_result>>
    /\ UNCHANGED <<ctl, loop, entry, gamesVars, reviewsVars, users,
                   collections, last_write>>

MainStep == MainEnsure \/ MainEnsureFail \/ MainGames \/ MainReviews \/ MainUsers

(***************************************************************************)
(* Inputs and specifications                                                *)
(***************************************************************************)
Cell(s) == [str |-> s]
T_ == <<"t">>

\* Archive entry names: "12_3.csv", "d/7_1.csv", "r.csv", "4.csv", "A.CSV",
\* "d/" and "n.txt".
EntryNames ==
    { <<"1", "2", "_", "3", ".", "c", "s", "v">>,
      <<"d", "/", "7", "_", "1", ".", "c", "s", "v">>,
      <<"r", ".", "c", "s", "v">>,
      <<"4", ".", "c", "s", "v">>,
      <<"A", ".", "C", "S", "V">>,
      <<"d", "/">>,
      <<"n", ".", "t", "x", "t">> }

\* CSV rows: column -> cell.
ReviewRows ==
    { [user |-> Cell(<<"a">>), review |-> Cell(T_), playtime |-> Cell(<<"3">>),
       recommend |-> Cell(<<"R">> \o Tail(RECOMMENDED))],
      [user |-> Cell(<<"b">>), review |-> Cell(T_),
       recommend |-> Cell(<<"N">> \o Tail(NOT_RECOMMENDED))],
      [author_steamid |-> Cell(<<"a">>), review_text |-> Cell(T_),
       recommend |-> Cell(RECOMMENDED)],
      [user |-> Cell(<<" ">>), review |-> Cell(T_)],
      [user |-> Cell(<<"a">>), review |-> Cell(T_), playtime |-> Cell(<<"x">>)],
      [user |-> Cell(<<>>), author_steamid |-> Cell(<<"b">>), review |-> Cell(T_),
       author_playtime_forever |-> Cell(<<"3">>),
       recommend |-> Cell(<<"M", "a", "y", "b", "e">>)],
      [user |-> Cell(<<"b">>), review |-> Cell(T_),
       recommended |-> Cell(<<"T", "r", "u", "e">>)] }

Distinct(s) == \A i, j \in 1..Len(s) : i # j => s[i] # s[j]
NameLists(S) == {s \in SeqsUpTo(S, MaxEntries) : Distinct(s)}

EmptyCollection == [i \in {} |-> EmptyDoc]

InitWith(catalogs) ==
    /\ pc = "idle" /\ caller = "direct"
    /\ s3_bucket = TRUE /\ existing = {}
    /\ catalog \in catalogs
    /\ pos = 0 /\ batch = <<>> /\ total_inserted = 0
    /\ listed = <<>>
    /\ csv_files = <<>> /\ csv_filename = <<>> /\ file_app_id = 0 /\ rows_read = 0
    /\ ok_runs = 0
    /\ games = EmptyCollection /\ reviews = EmptyBag /\ users = EmptyCollection
    /\ collections = {}
    /\ games_result = "none" /\ reviews_result = "none"
    /\ users_result = "none" /\ main_result = "none"
    /\ games_first = <<>> /\ accepted = EmptyBag
    /\ last_write = None /\ last_row = None

\* Direct calls of import_games_from_s3 on one games.json.
InitGames == InitWith(Catalogs)
NextGames == CallImportGames \/ GamesStep
SpecGames == InitGames /\ [][NextGames]_vars

\* release_date strings of games.json: "October 22, 2024", "Oct 22, 2024",
\* "2024-10-22", " Oct 22, 2024 ", "22/10/2024", "February 30, 2024", " "
\* and "".
DateStrings ==
    { <<"October", " ", "2", "2", ",", " ", "2", "0", "2", "4">>,
      <<"Oct", " ", "2", "2", ",", " ", "2", "0", "2", "4">>,
      <<"2", "0", "2", "4", "-", "1", "0", "-", "2", "2">>,
      <<" ", "Oct", " ", "2", "2", ",", " ", "2", "0", "2", "4", " ">>,
      <<"2", "2", "/", "1", "0", "/", "2", "0", "2", "4">>,
      <<"February", " ", "3", "0", ",", " ", "2", "0", "2", "4">>,
      <<" ">>,
      <<>> }
DateCatalogs ==
    SeqsUpTo({<<"1">>, <<"a">>} \X {[release_date |-> [str |-> d]] : d \in DateStrings},
             MaxDateCatalog)

\* Direct calls of import_games_from_s3 on one games.json of dated records.
InitDates == InitWith(DateCatalogs)
SpecDates == InitDates /\ [][NextGames]_vars

\* Direct calls of import_reviews.
InitReviews == InitWith({<<>>})
NextReviews == CallImportReviews \/ ReviewsStep(NameLists(EntryNames), ReviewRows)
SpecReviews == InitReviews /\ [][NextReviews]_vars

\* Direct calls of import_reviews on an archive of one entry, "r.csv", whose
\* rows also leave out, or leave empty or blank, a column or its alias.
RowsNames == { <<"r", ".", "c", "s", "v">> }
RowsRows ==
    ReviewRows \cup
    { [user |-> Cell(<<"a">>), review_text |-> Cell(<<" ">>)],
      [user |-> Cell(<<"a">>)],
      [user |-> Cell(<<" ">>), author_steamid |-> Cell(<<"b">>), review |-> Cell(T_)],
      [user |-> Cell(<<"a">>), review |-> Cell(<<>>), review_text |-> Cell(T_),
       playtime |-> Cell(<<>>), author_playtime_forever |-> Cell(<<"3">>)],
      [user |-> Cell(<<"a">>), author_steamid |-> Cell(<<"b">>),
       review |-> Cell(T_), review_text |-> Cell(<<"u">>),
       playtime |-> Cell(<<"0">>), author_playtime_forever |-> Cell(<<"3">>)] }
NextRows == CallImportReviews \/ ReviewsStep(NameLists(RowsNames), RowsRows)
SpecRows == InitReviews /\ [][NextRows]_vars

\* Direct calls of import_reviews and build_users_from_reviews, in any order.
UsersNames ==
    { <<"1", "2", "_", "3", ".", "c", "s", "v">>,
      <<"d", "/", "7", "_", "1", ".", "c", "s", "v">> }
UsersRows ==
    { [user |-> Cell(<<"a">>), review |-> Cell(T_)],
      [user |-> Cell(<<"b">>), review |-> Cell(T_)] }
InitUsers == InitWith({<<>>})
NextUsers ==
    \/ CallImportReviews
    \/ ReviewsStep(NameLists(UsersNames), UsersRows)
    \/ CallBuildUsers
    \/ UsersStep
SpecUsers == InitUsers /\ [][NextUsers]_vars

\* Runs of main, one after the other, on one database.
MainCatalogs ==
    SeqsUpTo({<<"1">>, <<"a">>} \X {[name |-> [str |-> <<"B">>]]}, MaxMainCatalog)
MainNames ==
    { <<"1", "2", "_", "3", ".", "c", "s", "v">>,
      <<"r", ".", "c", "s", "v">> }
MainRows ==
    { [user |-> Cell(<<"a">>), review |-> Cell(T_)],
      [user |-> Cell(<<"b">>), review |-> Cell(T_), playtime |-> Cell(<<"x">>)] }
Init == InitWith(MainCatalogs)
Next ==
    \/ (\E s3 \in BOOLEAN : MainStart(s3))
    \/ MainStep
    \/ GamesStep
    \/ ReviewsStep(NameLists(MainNames), MainRows)
    \/ UsersStep
Spec == Init /\ [][Next]_vars

(***************************************************************************)
(* Properties                                                               *)
(***************************************************************************)
\* C1: a second complete import of the same games.json leaves games as the
\* first complete import left it: the same _id values, the same number of
\* documents and the same fields in each.
C1_CatalogIdempotent ==
    (pc = "idle" /\ games_result = "ok" /\ ok_runs = 2) =>
        /\ DOMAIN games = DOMAIN games_first[1]
        /\ Cardinality(DOMAIN games) = Cardinality(DOMAIN games_first[1])
        /\ \A id \in DOMAIN games : games[id] = games_first[1][id]

\* Two pairs of the catalog have the same _id and different values, the
\* second import has ended and games holds two documents or more.
C1_Witness ==
    /\ pc = "idle" /\ games_result = "ok" /\ ok_runs = 2
    /\ Cardinality(DOMAIN games) >= 2
    /\ \E i, j \in 1..Len(catalog) :
        /\ i < j
        /\ catalog[i][1] # catalog[j][1]
        /\ GameId(catalog[i][1]) = GameId(catalog[j][1])
        /\ catalog[i][2] # catalog[j][2]

\* C2: a run of import_reviews that ends normally leaves in reviews exactly
\* one document per row it accepted, however many runs came before it: the
\* collection is cleared before the first insert of every run.
C2_DropThenReload ==
    (pc = "idle" /\ reviews_result = "ok") =>
        /\ reviews = accepted
        /\ BagCardinality(reviews) = BagCardinality(accepted)

\* A second successful run in a row has ended with two documents or more.
C2_Witness ==
    /\ pc = "idle" /\ reviews_result = "ok" /\ ok_runs = 2
    /\ BagCardinality(reviews) >= 2

\* The usernames that occur in a bag of review documents, and the reviews
\* of one of them.
Reviewers(revs) == {d["user"] : d \in BagToSet(revs)}
ReviewsOf(revs, u) == [d \in {e \in BagToSet(revs) : e["user"] = u} |-> revs[d]]

\* C3: when build_users_from_reviews has completed, every username with a
\* review has its document in users, keyed by the username, with the set of
\* the distinct app_ids of its reviews and the number of its reviews,
\* whatever users held before.
C3_UsersMatchReviews ==
    (pc = "idle" /\ users_result = "ok") =>
        \A u \in Reviewers(reviews) :
            /\ u \in DOMAIN users
            /\ users[u]["_id"] = u
            /\ users[u]["owned_app_ids"] =
                   {d["app_id"] : d \in BagToSet(ReviewsOf(reviews, u))}
            /\ users[u]["review_count"] = BagCardinality(ReviewsOf(reviews, u))

\* A build has completed where a user has two reviews of two items and
\* another document of users, from an earlier build, has no review left.
C3_Witness ==
    /\ pc = "idle" /\ users_result = "ok"
    /\ \E u \in Reviewers(reviews) :
        /\ users[u]["review_count"] >= 2
        /\ Cardinality(users[u]["owned_app_ids"]) >= 2
    /\ \E u \in DOMAIN users : u \notin Reviewers(reviews)

\* C4 as stated: after a completed build the usernames in users are exactly
\* the usernames that occur in reviews.
C4_RebuiltFromScratch ==
    (pc = "idle" /\ users_result = "ok") => DOMAIN users = Reviewers(reviews)

\* C4 amended: a completed build leaves in users the usernames it held before
\* together with those that occur in reviews; the document of a user that
\* has no review left stays, unchanged.
C4_MergeKeepsStale ==
    [][(pc = "users_build" /\ users_result' = "ok") =>
          /\ DOMAIN users' = DOMAIN users \cup Reviewers(reviews)
          /\ \A u \in DOMAIN users \ Reviewers(reviews) : users'[u] = users[u]]_vars

\* A build has completed and users holds a document whose user has no review.
C4_Witness ==
    /\ pc = "idle" /\ users_result = "ok"
    /\ \E u \in DOMAIN users : u \notin Reviewers(reviews)

\* The operations of the last bulk write that did not fail, and the bag of
\* the documents of those among them with an index in idx.
Succeeded(w) == (1..Len(w.ops)) \ w.failed
RECURSIVE DocsOf(_, _)
DocsOf(w, idx) ==
    IF idx = {} THEN EmptyBag
    ELSE LET i == CHOOSE j \in idx : TRUE
         IN  SetToBag({w.ops[i].doc}) (+) DocsOf(w, idx \ {i})

\* C5: when operations of an unordered bulk write fail, every other
\* operation of the batch is committed: each insert that did not fail added
\* its document to reviews, and each upsert that did not fail left its
\* fields in the games document of its _id, unless a later upsert of the
\* batch that did not fail set the field again.
C5_SiblingsCommitted ==
    (last_write # None /\ last_write.failed # {}) =>
        IF last_write.col = REVIEWS_COLLECTION
        THEN reviews = last_write.before (+) DocsOf(last_write, Succeeded(last_write))
        ELSE \A i \in Succeeded(last_write) :
                LET op == last_write.ops[i]
                IN  /\ op.filter_id \in DOMAIN games
                    /\ \A f \in DOMAIN op.doc :
                          \/ games[op.filter_id][f] = op.doc[f]
                          \/ \E j \in Succeeded(last_write) :
                                /\ j > i
                                /\ last_write.ops[j].filter_id = op.filter_id
                                /\ f \in DOMAIN last_write.ops[j].doc

\* The first operation of a batch of reviews failed and a later one did not.
C5_Witness ==
    /\ last_write # None
    /\ last_write.col = REVIEWS_COLLECTION
    /\ 1 \in last_write.failed
    /\ \E i \in Succeeded(last_write) : i > 1
    /\ BagCardinality(reviews) >= 1

\* C6 as stated: a bulk write in which an operation failed does not make
\* the run end in its error handler.
C6_WriteFailureDoesNotAbort ==
    (last_write # None /\ last_write.failed # {}) =>
        IF last_write.col = REVIEWS_COLLECTION
        THEN reviews_result # "error"
        ELSE games_result # "error"

\* C7 as stated: main starts build_users_from_reviews only after an
\* import_reviews that ended normally.
C7_BuildOnlyAfterReviews ==
    (caller = "main" /\ pc = "users_build") => reviews_result = "ok"

\* C8: in a run of main that found games listed, no step changes games; and
\* no step of a run of main changes users once the users collection exists.
C8_ExistingCollectionsSkipped ==
    [][/\ (caller = "main" /\ pc \notin {"idle", "main_ensure"}
            /\ GAMES_COLLECTION \in existing) => games' = games
       /\ (caller = "main" /\ pc # "idle" /\ USERS_COLLECTION \in collections)
            => users' = users]_vars

\* A run of main has ended that found games listed although an earlier import
\* had failed after writing part of the catalog, and that re-ingested reviews
\* and left users out of date.
C8_Witness ==
    /\ pc = "idle" /\ caller = "main" /\ main_result = "done"
    /\ GAMES_COLLECTION \in existing
    /\ games_result = "error"
    /\ Cardinality(DOMAIN games) < Cardinality({GameId(catalog[i][1]) : i \in 1..Len(catalog)})
    /\ reviews_result = "ok"
    /\ USERS_COLLECTION \in collections
    /\ users # GroupUsers(reviews)

\* C9 as stated: the recommend field of a written review document is true
\* when the raw recommend cell is "recommended" in any case, false when it is
\* "not recommended" in any case, and is left out otherwise.
C9_RecommendCoerced ==
    (last_row # None /\ last_row.outcome = "written") =>
        LET raw == RowGet(last_row.row, "recommend")
            t == IF raw = None THEN <<>> ELSE Lower(raw.str)
        IN  IF t = RECOMMENDED
            THEN "recommend" \in DOMAIN last_row.doc
                 /\ last_row.doc["recommend"] = [bool |-> TRUE]
            ELSE IF t = NOT_RECOMMENDED
            THEN "recommend" \in DOMAIN last_row.doc
                 /\ last_row.doc["recommend"] = [bool |-> FALSE]
            ELSE "recommend" \notin DOMAIN last_row.doc

\* The partition key the entry names of the model must give: "12_3.csv"
\* gives 12, "d/7_1.csv" gives 7, and a name whose part before the first
\* "_" is not an integer ("r.csv", "4.csv") gives 0.
ExpectedKey(name) ==
    CASE name = <<"1", "2", "_", "3", ".", "c", "s", "v">> -> 12
      [] name = <<"d", "/", "7", "_", "1", ".", "c", "s", "v">> -> 7
      [] OTHER -> 0

\* C10: every review document carries the partition key of the entry it
\* came from, 0 when the entry name has no integer before its first "_";
\* the rows of such an entry are ingested like the others.
C10_PartitionKey ==
    /\ \A d \in BagToSet(reviews) \cup BagToSet(accepted) :
          d["app_id"] = [int |-> ExpectedKey(d["source_file"].str)]
    /\ pc = "reviews_row" => file_app_id = ExpectedKey(csv_filename)
    /\ (pc = "idle" /\ reviews_result = "ok") =>
          \A d \in BagToSet(accepted) : CopiesIn(d, reviews) = CopiesIn(d, accepted)

\* A run has ended normally with documents of "r.csv" under key 0, of
\* "d/7_1.csv" under key 7, in one collection.
C10_Witness ==
    /\ pc = "idle" /\ reviews_result = "ok"
    /\ \E d \in BagToSet(reviews) :
          d["source_file"].str = <<"r", ".", "c", "s", "v">> /\ d["app_id"].int = 0
    /\ \E d \in BagToSet(reviews) :
          /\ d["source_file"].str = <<"d", "/", "7", "_", "1", ".", "c", "s", "v">>
          /\ d["app_id"].int = 7

\* C11 as stated: an accepted row whose playtime cell does not parse as a
\* number is still written, as a document without the playtime field, and
\* the run goes on.
C11_CoercionSkipsFieldOnly ==
    (last_row # None /\ RowAccepted(last_row.row) /\ ~RowPlaytime(last_row.row).ok) =>
        /\ last_row.outcome = "written"
        /\ "playtime" \notin DOMAIN last_row.doc
        /\ reviews_result # "error"

\* The test of _extract_reviews_zip_flat (lines 594-601): the name ends in
\* ".csv" in any case (no directory entry does: its name ends in "/").
IsCsvEntryAnyCase(name) ==
    /\ Len(name) >= 4
    /\ Lower(SubSeq(name, Len(name) - 3, Len(name))) = <<".", "c", "s", "v">>

\* C12 as stated: the entries that import_reviews is about to read are
\* exactly the listed names that end in ".csv" in any case, in the order of
\* the listing.
C12_CsvSuffixAnyCase ==
    (pc = "reviews_entry" /\ listed # <<>>) =>
        csv_files = SelectSeq(listed, IsCsvEntryAnyCase)

\* The calendar date (or None) that each release_date string of the model
\* stands for.
ExpectedDate(d) ==
    IF d \in { <<"October", " ", "2", "2", ",", " ", "2", "0", "2", "4">>,
               <<"Oct", " ", "2", "2", ",", " ", "2", "0", "2", "4">>,
               <<"2", "0", "2", "4", "-", "1", "0", "-", "2", "2">>,
               <<" ", "Oct", " ", "2", "2", ",", " ", "2", "0", "2", "4", " ">> }
    THEN [datetime |-> <<2024, 10, 22>>]
    ELSE None

\* C13: parse_date_mdy_long gives the date 2024-10-22 for "October 22, 2024",
\* "Oct 22, 2024" and "2024-10-22", and None for a string of no format, for
\* an empty string and for None; the upsert that import_games_from_s3 buffers
\* for a record carries that date, or the string as it was when there is none.
C13_DateParsing ==
    /\ parse_date_mdy_long(None) = None
    /\ pc \in {"games_loop", "games_flush", "games_final"} =>
          \A i \in 1..Len(batch) :
              LET raw == catalog[pos - Len(batch) + i][2]
              IN  "release_date" \in DOMAIN raw =>
                      batch[i].doc["release_date"] =
                          IF ExpectedDate(raw["release_date"].str) = None
                          THEN raw["release_date"]
                          ELSE ExpectedDate(raw["release_date"].str)

\* An import has ended that stored the date of "Oct 22, 2024" for one record
\* and left the string "22/10/2024" of another as it was.
C13_Witness ==
    /\ pc = "idle" /\ games_result = "ok"
    /\ Len(catalog) = 2
    /\ catalog[1][2]["release_date"].str
          = <<"Oct", " ", "2", "2", ",", " ", "2", "0", "2", "4">>
    /\ catalog[2][2]["release_date"].str
          = <<"2", "2", "/", "1", "0", "/", "2", "0", "2", "4">>
    /\ GameId(catalog[1][1]) # GameId(catalog[2][1])
    /\ games[GameId(catalog[1][1])]["release_date"] = [datetime |-> <<2024, 10, 22>>]
    /\ games[GameId(catalog[2][1])]["release_date"] = catalog[2][2]["release_date"]

\* C14: in both loops the buffer is written as soon as it holds as many
\* operations as the threshold and is then emptied, so that it holds fewer
\* whenever the next record is read; the step that ends a run normally leaves
\* nothing unwritten: the operations written are as many as the records of
\* the catalog, respectively the rows accepted, and reviews holds each
\* accepted row's document once, also when one write took rows of two entries.
C14_BatchBuffer ==
    [][/\ (pc' = "games_loop" => Len(batch') < batch_size)
       /\ (pc' = "games_flush" => Len(batch') = batch_size)
       /\ (pc' \in {"reviews_entry", "reviews_row"} => Len(batch') < REVIEWS_BATCH)
       /\ (pc' = "reviews_flush" => Len(batch') = REVIEWS_BATCH)
       /\ (pc' \in {"games_final", "reviews_final"} => batch' # <<>>)
       /\ (pc \in {"games_flush", "games_final", "reviews_flush", "reviews_final"}
             => last_write'.ops = batch)
       /\ (pc \in {"games_loop", "games_final"} /\ games_result' = "ok") =>
             /\ pc = "games_loop" => batch = <<>>
             /\ total_inserted' = Len(catalog)
             /\ \A i \in 1..Len(catalog) : GameId(catalog[i][1]) \in DOMAIN games'
       /\ (pc \in {"reviews_entry", "reviews_final"} /\ reviews_result' = "ok") =>
             /\ pc = "reviews_entry" => batch = <<>>
             /\ total_inserted' = BagCardinality(accepted')
             /\ reviews' = accepted']_vars

\* A run of main has ended in which the catalog loop wrote a full buffer and
\* the review loop wrote a full buffer holding rows of two entries.
C14_Witness ==
    /\ pc = "idle" /\ main_result = "done"
    /\ games_result = "ok" /\ Len(catalog) >= batch_size
    /\ total_inserted = REVIEWS_BATCH /\ reviews_result = "ok"
    /\ last_write # None /\ last_write.col = REVIEWS_COLLECTION
    /\ Len(last_write.ops) = REVIEWS_BATCH
    /\ \E i, j \in 1..Len(last_write.ops) :
          last_write.ops[i].doc["source_file"] # last_write.ops[j].doc["source_file"]
    /\ BagCardinality(reviews) = REVIEWS_BATCH

\* A cell that is missing, empty or made of whitespace only.
Blank(cell) == cell = None \/ \A i \in 1..Len(cell.str) : cell.str[i] \in Whitespace

\* C15: a row in which every alias of the user, or every alias of the
\* review text, is missing or blank, or whose user or review text as line
\* 376 and 377 take them is empty after trimming, is skipped: nothing is added to the
\* buffer and the next row is read; and every document buffered, accepted or
\* stored has a user and a review_text that are not empty.
C15_BlankRowsDropped ==
    [][/\ (pc = "reviews_row" /\ rows_read' = rows_read + 1
            /\ \/ Blank(RowGet(last_row'.row, "user"))
                  /\ Blank(RowGet(last_row'.row, "author_steamid"))
               \/ Blank(RowGet(last_row'.row, "review"))
                  /\ Blank(RowGet(last_row'.row, "review_text"))
               \/ RowUser(last_row'.row) = <<>>
               \/ RowReviewText(last_row'.row) = <<>>)
          => /\ last_row'.outcome = "skipped"
             /\ batch' = batch /\ reviews' = reviews /\ accepted' = accepted
             /\ pc' = "reviews_row" /\ reviews_result' = reviews_result
       /\ \A d \in BagToSet(reviews') \cup BagToSet(accepted')
                   \cup {batch'[i].doc : i \in 1..Len(batch')} :
             "user" \in DOMAIN d =>
                 /\ d["user"].str # <<>> /\ ~Blank(d["user"])
                 /\ d["review_text"].str # <<>> /\ ~Blank(d["review_text"])]_vars

\* A run has ended normally in which the last row read had a blank user and
\* was skipped, after a row that was written.
C15_Witness ==
    /\ pc = "idle" /\ reviews_result = "ok"
    /\ last_row # None /\ last_row.outcome = "skipped"
    /\ Blank(RowGet(last_row.row, "user"))
    /\ BagCardinality(reviews) >= 1

\* The value of the first of two aliases whose key is in the row, and the
\* value of the first whose cell is in the row and not empty; None if none.
FirstPresent(row, k1, k2) ==
    IF k1 \in DOMAIN row THEN row[k1]
    ELSE IF k2 \in DOMAIN row THEN row[k2] ELSE None
FirstNonEmpty(row, k1, k2) ==
    IF k1 \in DOMAIN row /\ row[k1].str # <<>> THEN row[k1]
    ELSE IF k2 \in DOMAIN row /\ row[k2].str # <<>> THEN row[k2] ELSE None

\* C16 as stated: the user, the review text and the playtime of a written
\* document are taken from the first alias whose key is in the row.
C16_FirstPresentKey ==
    (last_row # None /\ last_row.outcome = "written") =>
        LET u == FirstPresent(last_row.row, "user", "author_steamid")
            r == FirstPresent(last_row.row, "review", "review_text")
            p == FirstPresent(last_row.row, "playtime", "author_playtime_forever")
        IN  /\ u # None /\ last_row.doc["user"].str = Strip(u.str)
            /\ r # None /\ last_row.doc["review_text"].str = Strip(r.str)
            /\ p = None => last_row.doc["playtime"] = [float |-> 0]
            /\ p # None => PyFloat(p).ok /\ last_row.doc["playtime"] = PyFloat(p).val

\* C16, amended: the user, the review text and the playtime are taken from
\* the first alias, in order, whose cell is in the row and not empty; a later
\* alias is used when every earlier one is missing or empty.  A row is
\* skipped when the user or the review text so taken is missing or blank, and
\* the run ends in its handler when the playtime so taken is not a number.
C16_FirstNonEmptyAlias ==
    last_row # None =>
        LET u == FirstNonEmpty(last_row.row, "user", "author_steamid")
            r == FirstNonEmpty(last_row.row, "review", "review_text")
            p == FirstNonEmpty(last_row.row, "playtime", "author_playtime_forever")
        IN  /\ last_row.outcome = "written" =>
                /\ u # None /\ last_row.doc["user"].str = Strip(u.str)
                /\ r # None /\ last_row.doc["review_text"].str = Strip(r.str)
                /\ p = None => last_row.doc["playtime"] = [float |-> 0]
                /\ p # None => PyFloat(p).ok /\ last_row.doc["playtime"] = PyFloat(p).val
            /\ last_row.outcome = "skipped" => Blank(u) \/ Blank(r)
            /\ last_row.outcome = "raised" =>
                /\ ~Blank(u) /\ ~Blank(r)
                /\ p # None /\ ~PyFloat(p).ok

\* A row was written whose user column is there but empty: its user is that
\* of author_steamid.
C16_Witness ==
    /\ last_row # None /\ last_row.outcome = "written"
    /\ "user" \in DOMAIN last_row.row /\ last_row.row["user"].str = <<>>
    /\ "author_steamid" \in DOMAIN last_row.row
    /\ last_row.doc["user"] = last_row.row["author_steamid"]
    /\ last_row.doc \in BagToSet(accepted)

\* C17 as stated: when main has found no games collection, its next step
\* starts a catalog import, with or without S3_BUCKET, and main does not end
\* before import_reviews.
C17_MissingGamesThenImport ==
    [][(caller = "main" /\ pc = "main_games" /\ GAMES_COLLECTION \notin existing)
          => /\ pc' = "games_open"
             /\ main_result' # "crashed"]_vars

====
